---- MODULE Spec2Model ----
(***************************************************************************)
(* A model of tx_sendgrid_http_client/client.py: the Client that builds    *)
(* URL paths by chaining, the verb calls that send one request through the *)
(* transport, and the Response wrapper.                                    *)
(*                                                                         *)
(* Text (Python str) is a sequence of characters, each character a         *)
(* one-character string; U+0060, U+00E9 and U+20AC are written as their     *)
(* code point names.            Bytes are sequences of integers 0..255.    *)
(* An optional value is <<>> (None) or <<v>>.                              *)
(***************************************************************************)
EXTENDS Integers, Sequences, FiniteSets, TLC

VARIABLES clients, heap, calls, last

vars == <<clients, heap, calls, last>>

-----------------------------------------------------------------------------
(* Bounds of the model.                                                    *)

MaxClients == 2

MaxCalls == 2

MaxAccesses == 3

-----------------------------------------------------------------------------
(* Text, code points and bytes.                                            *)

None == <<>>

Some(v) == <<v>>

IsNone(o) == o = <<>>

\* The printable ASCII characters, code points 32..126 in order.
Ascii ==
  <<" ", "!", "\"", "#", "$", "%", "&", "'", "(", ")", "*", "+", ",", "-", ".", "/",
    "0", "1", "2", "3", "4", "5", "6", "7", "8", "9", ":", ";", "<", "=", ">", "?",
    "@", "A", "B", "C", "D", "E", "F", "G", "H", "I", "J", "K", "L", "M", "N", "O",
    "P", "Q", "R", "S", "T", "U", "V", "W", "X", "Y", "Z", "[", "\\", "]", "^", "_",
    "U+0060", "a", "b", "c", "d", "e", "f", "g", "h", "i", "j", "k", "l", "m", "n", "o",
    "p", "q", "r", "s", "t", "u", "v", "w", "x", "y", "z", "{", "|", "}", "~">>

\* The code point of each character of the alphabet.
CodePoints ==
  [c \in {Ascii[i] : i \in 1..Len(Ascii)} \cup {"U+00E9", "U+20AC"} |->
     IF c = "U+00E9" THEN 233
     ELSE IF c = "U+20AC" THEN 8364
     ELSE 31 + (CHOOSE i \in 1..Len(Ascii) : Ascii[i] = c)]

\* ord(c)
Ord(c) == CodePoints[c]

RECURSIVE Concat(_)
\* join(parts) on the empty separator: the concatenation of a sequence of sequences.
Concat(parts) ==
  IF parts = <<>> THEN <<>> ELSE Head(parts) \o Concat(Tail(parts))

\* One code point as UTF-8 bytes.
Utf8(cp) ==
  IF cp < 128 THEN <<cp>>
  ELSE IF cp < 2048 THEN <<192 + (cp \div 64), 128 + (cp % 64)>>
  ELSE <<224 + (cp \div 4096), 128 + ((cp \div 64) % 64), 128 + (cp % 64)>>

\* text.encode('utf-8')
encode(text) == Concat([i \in 1..Len(text) |-> Utf8(Ord(text[i]))])

Digits == <<"0", "1", "2", "3", "4", "5", "6", "7", "8", "9">>

RECURSIVE NatStr(_)
NatStr(n) ==
  IF n < 10 THEN <<Digits[n + 1]>> ELSE NatStr(n \div 10) \o <<Digits[(n % 10) + 1]>>

\* str(n) for an integer n.
str(n) == IF n < 0 THEN <<"-">> \o NatStr(0 - n) ELSE NatStr(n)

HexLower == Digits \o <<"a", "b", "c", "d", "e", "f">>

HexUpper == Digits \o <<"A", "B", "C", "D", "E", "F">>

\* Text order of Python str comparison: by code point, a prefix first.
RECURSIVE TextLess(_, _)
TextLess(a, b) ==
  IF b = <<>> THEN FALSE
  ELSE IF a = <<>> THEN TRUE
  ELSE IF Ord(Head(a)) # Ord(Head(b)) THEN Ord(Head(a)) < Ord(Head(b))
  ELSE TextLess(Tail(a), Tail(b))

-----------------------------------------------------------------------------
(* json.dumps with its defaults, on the values the model sends:            *)
(*   [t |-> "null"], [t |-> "int", n |-> 1], [t |-> "str", s |-> text],    *)
(*   [t |-> "dict", items |-> <<[k |-> text, v |-> value], ...>>].         *)

Hex4(cp) ==
  <<HexLower[((cp \div 4096) % 16) + 1], HexLower[((cp \div 256) % 16) + 1],
    HexLower[((cp \div 16) % 16) + 1], HexLower[(cp % 16) + 1]>>

\* One character of a JSON string literal (ensure_ascii).
JsonChar(c) ==
  IF c = "\"" THEN <<"\\", "\"">>
  ELSE IF c = "\\" THEN <<"\\", "\\">>
  ELSE IF Ord(c) > 126 THEN <<"\\", "u">> \o Hex4(Ord(c))
  ELSE <<c>>

JsonString(text) ==
  <<"\"">> \o Concat([i \in 1..Len(text) |-> JsonChar(text[i])]) \o <<"\"">>

RECURSIVE Join(_, _)
\* sep.join(parts)
Join(sep, parts) ==
  IF parts = <<>> THEN <<>>
  ELSE IF Len(parts) = 1 THEN parts[1]
  ELSE parts[1] \o sep \o Join(sep, Tail(parts))

RECURSIVE json_dumps(_)
json_dumps(v) ==
  IF v.t = "null" THEN <<"n", "u", "l", "l">>
  ELSE IF v.t = "int" THEN str(v.n)
  ELSE IF v.t = "str" THEN JsonString(v.s)
  ELSE <<"{">>
       \o Join(<<",", " ">>,
               [i \in 1..Len(v.items) |->
                  JsonString(v.items[i].k) \o <<":", " ">> \o json_dumps(v.items[i].v)])
       \o <<"}">>

-----------------------------------------------------------------------------
(* json.loads on a text, for the grammar of the bodies the model receives: *)
(* null, integers, strings with the escapes of a quote, a backslash, a     *)
(* slash and a code point of the alphabet, objects, and spaces around the  *)
(* tokens.  A scan yields [ok |-> TRUE, val |-> value, rest |-> text left] *)
(* or NoParse.                                                             *)

NoParse == [ok |-> FALSE]

Parsed(val, rest) == [ok |-> TRUE, val |-> val, rest |-> rest]

HasPrefix(t, p) == Len(t) >= Len(p) /\ SubSeq(t, 1, Len(p)) = p

Drop(t, n) == SubSeq(t, n + 1, Len(t))

RECURSIVE SkipWs(_)
SkipWs(t) == IF t # <<>> /\ Head(t) = " " THEN SkipWs(Tail(t)) ELSE t

IsDigit(c) == \E i \in 1..10 : Digits[i] = c

DigitValue(c) == (CHOOSE i \in 1..10 : Digits[i] = c) - 1

IsHex(c) == \E i \in 1..16 : HexLower[i] = c \/ HexUpper[i] = c

HexValue(c) == (CHOOSE i \in 1..16 : HexLower[i] = c \/ HexUpper[i] = c) - 1

\* chr(cp), for a code point of the alphabet.
Chr(cp) == CHOOSE c \in DOMAIN CodePoints : CodePoints[c] = cp

RECURSIVE ScanDigits(_, _)
ScanDigits(t, acc) ==
  IF t # <<>> /\ IsDigit(Head(t)) THEN ScanDigits(Tail(t), (acc * 10) + DigitValue(Head(t)))
  ELSE [n |-> acc, rest |-> t]

\* An integer: an optional minus, then 0 or a digit string with no leading 0.
ScanNumber(t) ==
  LET neg == t # <<>> /\ Head(t) = "-"
      u == IF neg THEN Tail(t) ELSE t
  IN  IF u = <<>> \/ ~IsDigit(Head(u)) THEN NoParse
      ELSE IF Head(u) = "0" THEN Parsed([t |-> "int", n |-> 0], Tail(u))
      ELSE LET d == ScanDigits(u, 0)
           IN  Parsed([t |-> "int", n |-> IF neg THEN 0 - d.n ELSE d.n], d.rest)

RECURSIVE ScanString(_, _)
\* The characters of a string literal after its opening quote.
ScanString(t, acc) ==
  IF t = <<>> THEN NoParse
  ELSE IF Head(t) = "\"" THEN Parsed(acc, Tail(t))
  ELSE IF Head(t) = "\\"
       THEN IF Len(t) >= 2 /\ t[2] \in {"\"", "\\", "/"}
            THEN ScanString(Drop(t, 2), Append(acc, t[2]))
            ELSE IF Len(t) >= 6 /\ t[2] = "u" /\ \A i \in 3..6 : IsHex(t[i])
            THEN ScanString(Drop(t, 6),
                            Append(acc, Chr((HexValue(t[3]) * 4096) + (HexValue(t[4]) * 256)
                                            + (HexValue(t[5]) * 16) + HexValue(t[6]))))
            ELSE NoParse
  ELSE ScanString(Tail(t), Append(acc, Head(t)))

\* d[k] = v on the items of a dict: a key that is there keeps its place.
DictSet(items, k, v) ==
  IF \E i \in 1..Len(items) : items[i].k = k
  THEN [i \in 1..Len(items) |-> IF items[i].k = k THEN [k |-> k, v |-> v] ELSE items[i]]
  ELSE Append(items, [k |-> k, v |-> v])

RECURSIVE ScanValue(_)
RECURSIVE ScanMembers(_, _)
ScanValue(t0) ==
  LET t == SkipWs(t0)
  IN  IF t = <<>> THEN NoParse
      ELSE IF HasPrefix(t, <<"n", "u", "l", "l">>) THEN Parsed([t |-> "null"], Drop(t, 4))
      ELSE IF Head(t) = "\""
           THEN LET r == ScanString(Tail(t), <<>>)
                IN  IF r.ok THEN Parsed([t |-> "str", s |-> r.val], r.rest) ELSE NoParse
      ELSE IF Head(t) = "{"
           THEN LET u == SkipWs(Tail(t))
                IN  IF u # <<>> /\ Head(u) = "}"
                    THEN Parsed([t |-> "dict", items |-> <<>>], Tail(u))
                    ELSE ScanMembers(u, <<>>)
      ELSE ScanNumber(t)

\* The members of an object from the start of a key, items being those read.
ScanMembers(t, items) ==
  IF t = <<>> \/ Head(t) # "\"" THEN NoParse
  ELSE LET key == ScanString(Tail(t), <<>>)
       IN  IF ~key.ok THEN NoParse
           ELSE LET u == SkipWs(key.rest)
                IN  IF u = <<>> \/ Head(u) # ":" THEN NoParse
                    ELSE LET v == ScanValue(Tail(u))
                         IN  IF ~v.ok THEN NoParse
                             ELSE LET w == SkipWs(v.rest)
                                      its == DictSet(items, key.val, v.val)
                                  IN  IF w = <<>> THEN NoParse
                                      ELSE IF Head(w) = "}"
                                      THEN Parsed([t |-> "dict", items |-> its], Tail(w))
                                      ELSE IF Head(w) = ","
                                      THEN ScanMembers(SkipWs(Tail(w)), its)
                                      ELSE NoParse

\* json.loads(text): the value, or JSONDecodeError.
json_loads(text) ==
  LET r == ScanValue(text)
  IN  IF r.ok /\ SkipWs(r.rest) = <<>> THEN [result |-> "return", value |-> r.val]
      ELSE [result |-> "raise", value |-> [type |-> "JSONDecodeError"]]

-----------------------------------------------------------------------------
(* urllib.parse.urlencode(sorted(query_params.items()), True), on a        *)
(* mapping given as its items in insertion order, keys and values text.   *)

AlwaysSafe ==
  {Ascii[i] : i \in (17..26) \cup (34..59) \cup (66..91)} \cup {"_", ".", "-", "~"}

PercentByte(b) == <<"%", HexUpper[(b \div 16) + 1], HexUpper[(b % 16) + 1]>>

QuoteChar(c) ==
  IF c = " " THEN <<"+">>
  ELSE IF c \in AlwaysSafe THEN <<c>>
  ELSE Concat([i \in 1..Len(Utf8(Ord(c))) |-> PercentByte(Utf8(Ord(c))[i])])

quote_plus(text) == Concat([i \in 1..Len(text) |-> QuoteChar(text[i])])

RECURSIVE Insert(_, _)
Insert(item, items) ==
  IF items = <<>> THEN <<item>>
  ELSE IF TextLess(item[1], Head(items)[1]) THEN <<item>> \o items
  ELSE <<Head(items)>> \o Insert(item, Tail(items))

\* sorted that leaves the items in insertion order.
SortedAsInserted(items) == items

RECURSIVE sorted(_)
\* sorted(items) of a mapping: by key, the keys being distinct.
sorted(items) ==
  IF items = <<>> THEN <<>> ELSE Insert(Head(items), sorted(Tail(items)))

urlencode(items) ==
  Join(<<"&">>,
       [i \in 1..Len(items) |-> quote_plus(items[i][1]) \o <<"=">> \o quote_plus(items[i][2])])

-----------------------------------------------------------------------------
(* Objects.  A dict of headers is a function from key text to value text;  *)
(* heap is the sequence of the header dicts allocated so far and a client  *)
(* refers to its dict by index, so that two clients holding the same index *)
(* hold the same dict object.  A list of path segments is never changed in *)
(* place by client.py (line 143 builds a new list with +), so a client     *)
(* holds its list by value.                                                *)

EmptyDict == [k \in {} |-> <<>>]

\* bool(d) of a dict or a list or a text: non-empty.
Truthy(d) == DOMAIN d # {}

\* d.update(e)
DictUpdate(d, e) ==
  [k \in (DOMAIN d) \cup (DOMAIN e) |-> IF k \in DOMAIN e THEN e[k] ELSE d[k]]

ContentType == <<"C", "o", "n", "t", "e", "n", "t", "-", "T", "y", "p", "e">>

ApplicationJson ==
  <<"a", "p", "p", "l", "i", "c", "a", "t", "i", "o", "n", "/", "j", "s", "o", "n">>

TextPlain == <<"t", "e", "x", "t", "/", "p", "l", "a", "i", "n">>

\* self.methods
methods == {"delete", "get", "patch", "post", "put"}

\* name.upper() of a verb
upper(name) ==
  CASE name = "delete" -> "DELETE"
    [] name = "get" -> "GET"
    [] name = "patch" -> "PATCH"
    [] name = "post" -> "POST"
    [] name = "put" -> "PUT"

\* The names __init__ binds on the instance, lines 79..88: normal attribute
\* lookup finds them, so __getattr__ is never called for them.
InstanceAttributes ==
  {<<"h", "o", "s", "t">>,
   <<"r", "e", "q", "u", "e", "s", "t", "_", "h", "e", "a", "d", "e", "r", "s">>,
   <<"_", "v", "e", "r", "s", "i", "o", "n">>,
   <<"_", "u", "r", "l", "_", "p", "a", "t", "h">>,
   <<"m", "e", "t", "h", "o", "d", "s">>,
   <<"a", "p", "p", "e", "n", "d", "_", "s", "l", "a", "s", "h">>,
   <<"t", "i", "m", "e", "o", "u", "t">>}

\* What normal lookup returns for a name of InstanceAttributes.
AttributeValue(self, name) ==
  CASE name = <<"h", "o", "s", "t">> -> self.host
    [] name = <<"r", "e", "q", "u", "e", "s", "t", "_", "h", "e", "a", "d", "e", "r", "s">> -> self.request_headers
    [] name = <<"_", "v", "e", "r", "s", "i", "o", "n">> -> self._version
    [] name = <<"_", "u", "r", "l", "_", "p", "a", "t", "h">> -> self._url_path
    [] name = <<"m", "e", "t", "h", "o", "d", "s">> -> methods
    [] name = <<"a", "p", "p", "e", "n", "d", "_", "s", "l", "a", "s", "h">> -> self.append_slash
    [] name = <<"t", "i", "m", "e", "o", "u", "t">> -> self.timeout

\* Client.__init__: the new object and the heap after it.  request_headers is
\* None or Some(index of the dict passed), url_path is None or Some(list).
__init__(hp, host, request_headers, version, url_path, append_slash, timeout) ==
  LET fresh == IsNone(request_headers) \/ ~Truthy(hp[request_headers[1]])
  IN  [heap |-> IF fresh THEN Append(hp, EmptyDict) ELSE hp,
       obj |-> [host |-> host,
                request_headers |-> IF fresh THEN Len(hp) + 1 ELSE request_headers[1],
                _version |-> version,
                _url_path |-> IF IsNone(url_path) \/ url_path[1] = <<>>
                              THEN <<>> ELSE url_path[1],
                append_slash |-> append_slash,
                timeout |-> timeout]]

\* The url_path argument _build_client passes on: name is None or Some(text).
build_client_path(self, name) ==
  IF ~IsNone(name) /\ name[1] # <<>> THEN Append(self._url_path, name[1])
  ELSE self._url_path

\* Client._build_client
_build_client(hp, self, name) ==
  __init__(hp, self.host, Some(self.request_headers), self._version,
           Some(build_client_path(self, name)), self.append_slash, self.timeout)

\* Client._build_versioned_url
_build_versioned_url(self, url) ==
  self.host \o <<"/", "v">> \o str(self._version[1]) \o url

\* if self._version: None and 0 are false.
VersionTruthy(self) == ~IsNone(self._version) /\ self._version[1] # 0

\* UrlPath with the loop of line 109 started one segment late.
UrlPathSkipsFirst(self) ==
  Concat([i \in 2..Len(self._url_path) |-> <<"/">> \o self._url_path[i]])
  \o (IF self.append_slash THEN <<"/">> ELSE <<>>)

\* The path part of _build_url, lines 107..115.
UrlPath(self) ==
  Concat([i \in 1..Len(self._url_path) |-> <<"/">> \o self._url_path[i]])
  \o (IF self.append_slash THEN <<"/">> ELSE <<>>)

\* Client._build_url: query_params is None or Some(items in insertion order).
_build_url(self, query_params) ==
  LET url == IF ~IsNone(query_params) /\ query_params[1] # <<>>
             THEN UrlPath(self) \o <<"?">> \o urlencode(sorted(query_params[1]))
             ELSE UrlPath(self)
  IN  IF VersionTruthy(self) THEN _build_versioned_url(self, url)
      ELSE self.host \o url

-----------------------------------------------------------------------------
(* The verb call, http_request, up to its first suspension: lines 216..245 *)
(* run without a yield, and _make_request runs on to line 157, where the   *)
(* transport is invoked.  kwargs is a record of optional values, a key of  *)
(* the call being present when its value is not None.                      *)

\* _update_headers that leaves the dict of the client as it is.
UpdateHeadersDropped(hp, self, kwargs) == hp

\* _update_headers that makes the dict of the client the headers of the call,
\* empty when the call has none.
UpdateHeadersReplaces(hp, self, kwargs) ==
  [hp EXCEPT ![self.request_headers] =
     IF IsNone(kwargs.request_headers) THEN EmptyDict ELSE kwargs.request_headers[1]]

\* _update_headers that also stores Content-Type: application/json in the
\* dict of the client when the call has a body and the dict has none.
UpdateHeadersStoresContentType(hp, self, kwargs) ==
  LET merged == IF IsNone(kwargs.request_headers) THEN hp[self.request_headers]
                ELSE DictUpdate(hp[self.request_headers], kwargs.request_headers[1])
  IN  [hp EXCEPT ![self.request_headers] =
         IF ~IsNone(kwargs.request_body) /\ ContentType \notin DOMAIN merged
         THEN DictUpdate(merged, [k \in {ContentType} |-> ApplicationJson])
         ELSE merged]

\* Client._update_headers, applied when request_headers is among the kwargs.
_update_headers(hp, self, kwargs) ==
  IF IsNone(kwargs.request_headers) THEN hp
  ELSE [hp EXCEPT ![self.request_headers] = DictUpdate(@, kwargs.request_headers[1])]

\* SerializesJson with the else branch of line 228 taking the body verbatim.
SerializesJsonOnlyWhenSet(hdr) ==
  ContentType \in DOMAIN hdr /\ hdr[ContentType] = ApplicationJson

\* Whether the body is serialized by json.dumps: lines 223..229.
SerializesJson(hdr) ==
  IF ContentType \in DOMAIN hdr THEN hdr[ContentType] = ApplicationJson ELSE TRUE

\* Line 225 calls encode on the body: only a str has it.
RaisesAttributeError(hdr, kwargs) ==
  /\ ~IsNone(kwargs.request_body)
  /\ ~SerializesJson(hdr)
  /\ kwargs.request_body[1].t # "str"

\* data, lines 218..229: None or Some(bytes); hdr is the dict after the merge.
RequestData(hdr, kwargs) ==
  IF IsNone(kwargs.request_body) THEN None
  ELSE IF SerializesJson(hdr) THEN Some(encode(json_dumps(kwargs.request_body[1])))
  ELSE Some(encode(kwargs.request_body[1].s))

\* AddsContentType without the test of data.
AddsContentTypeWithoutBody(hdr, data) == ContentType \notin DOMAIN hdr

\* The condition of line 240: data, and no Content-Type in self.request_headers.
AddsContentType(hdr, data) ==
  /\ ~IsNone(data) /\ data[1] # <<>>
  /\ ContentType \notin DOMAIN hdr

\* OutgoingHeaders read from the first dict as it is before the call.
OutgoingHeadersBeforeMerge(hdr, data) ==
  [kb \in {encode(k) : k \in DOMAIN heap[1]} |->
     encode(heap[1][CHOOSE k \in DOMAIN heap[1] : encode(k) = kb])]

\* headers, lines 236..241: a dict from key bytes to value bytes.
OutgoingHeaders(hdr, data) ==
  LET enc == [kb \in {encode(k) : k \in DOMAIN hdr} |->
                encode(hdr[CHOOSE k \in DOMAIN hdr : encode(k) = kb])]
  IN  IF AddsContentType(hdr, data)
      THEN DictUpdate(enc, [kb \in {encode(ContentType)} |-> encode(ApplicationJson)])
      ELSE enc

\* Line 242: the timeout popped from kwargs, None when there is none.
RequestTimeout(self, kwargs) == kwargs.timeout

\* The keyword arguments _make_request hands to the transport, lines 243..245.
TransportRequest(hp, self, name, kwargs) ==
  LET hdr == hp[self.request_headers]
      data == RequestData(hdr, kwargs)
  IN  [method |-> upper(name),
       timeout |-> RequestTimeout(self, kwargs),
       url |-> _build_url(self, kwargs.query_params),
       headers |-> OutgoingHeaders(hdr, data),
       data |-> data]

-----------------------------------------------------------------------------
(* The end of a request: _make_request lines 158..171, Response.           *)

\* Response.__init__
Response(response) ==
  [_status_code |-> response.code, _body |-> response.body, _headers |-> response.headers]

\* to_dict with json.loads called on the empty body too.
ToDictParsesAlways(self) == json_loads(self._body)

\* Response.to_dict, lines 44..52: None is the JSON value null.
to_dict(self) ==
  IF self._body # <<>> THEN json_loads(self._body)
  ELSE [result |-> "return", value |-> [t |-> "null"]]

\* exceptions.HTTPError(**ret)
HTTPError(ret) == [code |-> ret.code, body |-> ret.body, headers |-> ret.headers]

\* exceptions.handle_error: the HTTPError refined to the kind of its status code.
ErrorKind(code) ==
  CASE code = 400 -> "BadRequestError"
    [] code = 401 -> "UnauthorizedError"
    [] code = 403 -> "ForbiddenError"
    [] code = 404 -> "NotFoundError"
    [] code = 405 -> "MethodNotAllowedError"
    [] code = 406 -> "NotAcceptableError"
    [] code = 413 -> "PayloadTooLargeError"
    [] code = 415 -> "UnsupportedMediaTypeError"
    [] code = 429 -> "TooManyRequestsError"
    [] 500 <= code /\ code < 600 -> "ServerError"
    [] OTHER -> "HTTPError"

handle_error(err) ==
  [type |-> "HTTPError", kind |-> ErrorKind(err.code),
   code |-> err.code, body |-> err.body, headers |-> err.headers]

\* IsFailure with the upper bound included among the successes.
IsFailureAbove300(code) == ~(200 <= code /\ code <= 300)

\* if not 200 <= code < 300, line 165.
IsFailure(code) == ~(200 <= code /\ code < 300)

\* What the call yields to its caller once the body text is read.
Outcome(ret) ==
  IF IsFailure(ret.code)
  THEN [result |-> "raise", value |-> handle_error(HTTPError(ret))]
  ELSE [result |-> "return", value |-> Response(ret)]

-----------------------------------------------------------------------------
(* The state machine.  clients: the Client objects made so far; heap: the  *)
(* header dicts; calls: the verb calls suspended in _make_request; last:   *)
(* the operation that took the last step, with what it returned or raised. *)

\* Client(host, ...) called by the program: the root client.  rh is None or
\* Some(dict of the caller), which is then the first object of the heap.
Root(host, rh, version, url_path, append_slash, timeout) ==
  LET hp0 == IF IsNone(rh) THEN <<>> ELSE <<rh[1]>>
      made == __init__(hp0, host, IF IsNone(rh) THEN None ELSE Some(1),
                       version, url_path, append_slash, timeout)
  IN  /\ clients = <<made.obj>>
      /\ heap = made.heap
      /\ calls = <<>>
      /\ last = [op |-> "Client"]

\* self._(name), line 173.
Underscore(i, name) ==
  /\ Len(clients) < MaxClients
  /\ LET made == _build_client(heap, clients[i], Some(name))
     IN  /\ clients' = Append(clients, made.obj)
         /\ heap' = made.heap
         /\ last' = [op |-> "_", client |-> i, name |-> name, new |-> Len(clients) + 1]
  /\ UNCHANGED calls

\* self.name for a name that is neither version nor a verb, lines 249..251.
GetAttrSegment(i, name) ==
  /\ name \notin InstanceAttributes
  /\ Len(clients) < MaxClients
  /\ LET made == _build_client(heap, clients[i], Some(name))
     IN  /\ clients' = Append(clients, made.obj)
         /\ heap' = made.heap
         /\ last' = [op |-> "getattr", client |-> i, name |-> name, new |-> Len(clients) + 1]
  /\ UNCHANGED calls

\* self.name for a name bound on the instance: the value bound, and no call
\* of __getattr__ (line 185), so no client is built.
GetAttrField(i, name) ==
  /\ name \in InstanceAttributes
  /\ last' = [op |-> "field", client |-> i, name |-> name,
              value |-> AttributeValue(clients[i], name)]
  /\ UNCHANGED <<clients, heap, calls>>

\* The receiver after line 201, self._version = args[0].
SetVersion(self, n) == [self EXCEPT !._version = Some(n)]

\* self.version(n), lines 194..203.
GetVersion(i, n) ==
  /\ Len(clients) < MaxClients
  /\ LET self == SetVersion(clients[i], n)
         made == _build_client(heap, self, None)
     IN  /\ clients' = Append([clients EXCEPT ![i] = self], made.obj)
         /\ heap' = made.heap
         /\ last' = [op |-> "version", client |-> i, n |-> n, new |-> Len(clients) + 1,
                     before |-> clients[i]]
  /\ UNCHANGED calls

\* self.<verb>(**kwargs), lines 206..245, to the transport invocation.
HttpRequest(i, name, kwargs) ==
  /\ name \in methods
  /\ Len(calls) < MaxCalls
  /\ LET hp == _update_headers(heap, clients[i], kwargs)
         raises == RaisesAttributeError(hp[clients[i].request_headers], kwargs)
         req == TransportRequest(hp, clients[i], name, kwargs)
     IN  /\ heap' = hp
         /\ calls' = IF raises THEN calls
                     ELSE Append(calls, [client |-> i, req |-> req, pc |-> "tx_req",
                                         invocations |-> 1,
                                         code |-> None, headers |-> None])
         /\ last' = [op |-> "http_request", client |-> i, name |-> name,
                     kwargs |-> kwargs,
                     before |-> heap[clients[i].request_headers],
                     sent |-> IF raises THEN None ELSE Some(req)]
  /\ UNCHANGED clients

Remove(seq, k) == [j \in 1..(Len(seq) - 1) |-> IF j < k THEN seq[j] ELSE seq[j + 1]]

\* res = yield tx_req(...), code = res.code: lines 157..159.
TransportRespond(k, code, rheaders) ==
  /\ calls[k].pc = "tx_req"
  /\ calls' = [calls EXCEPT ![k].pc = "text_content", ![k].code = Some(code),
                            ![k].headers = Some(rheaders)]
  /\ last' = [op |-> "tx_req", client |-> calls[k].client, code |-> code]
  /\ UNCHANGED <<clients, heap>>

\* TransportFailure with an except clause that catches every error and hands
\* it to handle_error.
TransportFailureClassified(err) ==
  [result |-> "raise",
   value |-> handle_error([code |-> 0, body |-> <<>>, headers |-> EmptyDict])]

\* What the call yields when tx_req raises err: the except clause of line 168
\* catches HTTPError only, so err leaves _make_request and http_request as it
\* is.
TransportFailure(err) ==
  [result |-> "raise", value |-> [type |-> "TransportError", error |-> err]]

\* tx_req fails with err: the call ends, the transport is not invoked again.
TransportFail(k, err) ==
  /\ calls[k].pc = "tx_req"
  /\ calls' = Remove(calls, k)
  /\ last' = [op |-> "finish", client |-> calls[k].client, req |-> calls[k].req,
              invocations |-> calls[k].invocations, failure |-> Some(err),
              stage |-> calls[k].pc, status |-> calls[k].code,
              exchange |-> None, outcome |-> TransportFailure(err)]
  /\ UNCHANGED <<clients, heap>>

\* content = yield text_content(res): lines 159..171, then line 246.
BodyRead(k, content) ==
  /\ calls[k].pc = "text_content"
  /\ calls' = Remove(calls, k)
  /\ LET ret == [body |-> content, code |-> calls[k].code[1],
                 headers |-> calls[k].headers[1]]
     IN  last' = [op |-> "finish", client |-> calls[k].client, req |-> calls[k].req,
                  invocations |-> calls[k].invocations, failure |-> None,
                  stage |-> calls[k].pc, status |-> calls[k].code,
                  exchange |-> Some(ret), outcome |-> Outcome(ret)]
  /\ UNCHANGED <<clients, heap>>

\* DecodeFailure with the status classified although the body was not read.
DecodeFailureClassified(code) ==
  IF IsFailure(code)
  THEN [result |-> "raise",
        value |-> handle_error(HTTPError([code |-> code, body |-> <<>>, headers |-> EmptyDict]))]
  ELSE [result |-> "raise", value |-> [type |-> "UnicodeDecodeError"]]

\* What the call yields when text_content raises at line 159, the status being
\* code: lines 160..166 are not reached and the except clause of line 168 does
\* not catch the error.
DecodeFailure(code) == [result |-> "raise", value |-> [type |-> "UnicodeDecodeError"]]

\* text_content fails to decode the body as UTF-8.
BodyDecodeFail(k) ==
  /\ calls[k].pc = "text_content"
  /\ calls' = Remove(calls, k)
  /\ last' = [op |-> "finish", client |-> calls[k].client, req |-> calls[k].req,
              invocations |-> calls[k].invocations, failure |-> None,
              stage |-> calls[k].pc, status |-> calls[k].code,
              exchange |-> None, outcome |-> DecodeFailure(calls[k].code[1])]
  /\ UNCHANGED <<clients, heap>>

\* response.to_dict read by the holder of a Response: the property computes
\* its value and assigns nothing.
ToDict ==
  /\ last.op \in {"Response", "to_dict"}
  /\ last.accesses < MaxAccesses
  /\ last' = [op |-> "to_dict", response |-> last.response,
              accesses |-> last.accesses + 1, outcome |-> to_dict(last.response)]
  /\ UNCHANGED <<clients, heap, calls>>

-----------------------------------------------------------------------------
(* Inputs.                                                                 *)

Host == <<"H">>

XA == <<"X", "-", "A">>

OneHeader(k, v) == [key \in {k} |-> v]

NoKwargs == [request_headers |-> None, request_body |-> None,
             query_params |-> None, timeout |-> None]

Options(S) == {None} \cup {Some(x) : x \in S}

\* Path segments, the empty text among them, and version numbers.
Segments == {<<>>, <<"x">>, <<"y">>}

Versions == {0, 3}

\* The url_path a root is created with.
RootPaths == {None, Some(<< <<"r">> >>), Some(<< <<"r">>, <<"s">> >>)}

\* The request_headers a root is created with: None, or a dict of the caller.
RootHeaders ==
  {None, Some(EmptyDict), Some(OneHeader(ContentType, ApplicationJson)),
   Some(OneHeader(ContentType, TextPlain))}

Timeouts == {None, Some(5)}

\* The request_headers of a verb call.
CallHeaders ==
  {None, Some(OneHeader(ContentType, TextPlain)), Some(OneHeader(XA, <<"1">>))}

\* The request_body of a verb call.
CallBodies ==
  {None,
   Some([t |-> "str", s |-> <<"r", "U+00E9">>]),
   Some([t |-> "str", s |-> <<>>]),
   Some([t |-> "null"]),
   Some([t |-> "dict", items |-> <<[k |-> <<"a">>, v |-> [t |-> "int", n |-> 1]]>>])}

\* The query_params of a verb call, as items in insertion order.
CallParams ==
  {None, Some(<<>>),
   Some(<< << <<"b">>, <<"1">> >>, << <<"a">>, <<" ">> >> >>),
   Some(<< << <<"a">>, <<" ">> >>, << <<"b">>, <<"1">> >> >>),
   Some(<< << <<"a", "!">>, <<"x">> >>, << <<"a", " ">>, <<"?">> >> >>)}

CallTimeouts == {None, Some(9)}

StatusCodes == {199, 200, 299, 300, 404, 500}

Contents == {<<>>, <<"{", "}">>}

\* The failures of the transport before a status is received.
TransportErrors == {"connection", "dns", "timeout"}

-----------------------------------------------------------------------------
(* SpecUrl: a root of any version, path and slash flag, chains of segment  *)
(* accesses and version calls from it, and one verb call with any query    *)
(* parameters, which shows the URL the client builds.                      *)

InitUrl ==
  \E v \in Options(Versions), up \in RootPaths, sl \in BOOLEAN :
    Root(Host, None, v, up, sl, None)

NextUrl ==
  \/ \E i \in 1..Len(clients), name \in Segments : Underscore(i, name)
  \/ \E i \in 1..Len(clients), name \in Segments : GetAttrSegment(i, name)
  \/ \E i \in 1..Len(clients), name \in InstanceAttributes : GetAttrField(i, name)
  \/ \E i \in 1..Len(clients), n \in Versions : GetVersion(i, n)
  \/ \E i \in 1..Len(clients), q \in CallParams :
       calls = <<>> /\ HttpRequest(i, "get", [NoKwargs EXCEPT !.query_params = q])

SpecUrl == InitUrl /\ [][NextUrl]_vars

-----------------------------------------------------------------------------
(* SpecCall: one root client with any headers and timeout, and a caller    *)
(* that awaits each verb call before the next: every combination of call   *)
(* headers, body and timeout, and every answer of the transport.           *)

InitCall ==
  \E rh \in RootHeaders, to \in Timeouts : Root(Host, rh, None, None, FALSE, to)

NextCall ==
  \/ \E name \in {"get", "post"}, h \in CallHeaders, b \in CallBodies, t \in CallTimeouts :
       calls = <<>> /\ HttpRequest(1, name, [request_headers |-> h, request_body |-> b,
                                             query_params |-> None, timeout |-> t])
  \/ \E k \in 1..Len(calls), code \in StatusCodes : TransportRespond(k, code, EmptyDict)
  \/ \E k \in 1..Len(calls), err \in TransportErrors : TransportFail(k, err)
  \/ \E k \in 1..Len(calls), content \in Contents : BodyRead(k, content)
  \/ \E k \in 1..Len(calls) : BodyDecodeFail(k)

SpecCall == InitCall /\ [][NextCall]_vars

-----------------------------------------------------------------------------
(* Spec: the whole life of the clients of one root: derivations, verb      *)
(* calls that overlap (up to MaxCalls suspended at once), and the answers  *)
(* of the transport, on a few inputs of each kind.                         *)

Init ==
  \E rh \in {None, Some(OneHeader(ContentType, ApplicationJson))} :
    Root(Host, rh, None, None, FALSE, Some(5))

\* The keyword arguments of the verb calls of Spec.
SomeKwargs ==
  {[NoKwargs EXCEPT !.request_headers = Some(OneHeader(XA, <<"1">>))],
   [NoKwargs EXCEPT !.request_headers = Some(OneHeader(ContentType, TextPlain)),
                    !.request_body = Some([t |-> "str", s |-> <<"r">>])],
   [NoKwargs EXCEPT !.request_body = Some([t |-> "int", n |-> 1]),
                    !.timeout = Some(9)]}

Next ==
  \/ \E i \in 1..Len(clients) : Underscore(i, <<"x">>)
  \/ \E i \in 1..Len(clients) : GetAttrSegment(i, <<"y">>)
  \/ \E i \in 1..Len(clients) : GetVersion(i, 3)
  \/ \E i \in 1..Len(clients), kwargs \in SomeKwargs : HttpRequest(i, "post", kwargs)
  \/ \E k \in 1..Len(calls), code \in {200, 404} : TransportRespond(k, code, EmptyDict)
  \/ \E k \in 1..Len(calls) : TransportFail(k, "timeout")
  \/ \E k \in 1..Len(calls) : BodyRead(k, <<>>)
  \/ \E k \in 1..Len(calls) : BodyDecodeFail(k)

Spec == Init /\ [][Next]_vars

-----------------------------------------------------------------------------
(* SpecResponse: one Response made from any exchange, and its holder       *)
(* reading to_dict up to MaxAccesses times.                                *)

\* JSON values, whose serializations are bodies.
JsonValues ==
  {[t |-> "null"], [t |-> "int", n |-> 0], [t |-> "int", n |-> 0 - 12],
   [t |-> "str", s |-> <<>>], [t |-> "str", s |-> <<"r", "U+00E9", "\"">>],
   [t |-> "dict", items |-> <<>>],
   [t |-> "dict", items |-> <<[k |-> <<"x">>, v |-> [t |-> "int", n |-> 1]],
                              [k |-> <<"y">>, v |-> [t |-> "dict", items |-> <<>>]]>>]}

\* Bodies that are not JSON texts.
InvalidBodies ==
  {<<" ">>,
   <<"{">>,
   <<"x">>,
   <<"n", "u", "l">>,
   <<"0", "1">>,
   <<"-">>,
   <<"\"", "r">>,
   <<"{", "\"", "a", "\"", "}">>,
   <<"{", "\"", "a", "\"", ":", "1", ",", "}">>,
   <<"{", "}", "x">>,
   <<"{", "}", " ", "{", "}">>,
   <<"\"", "\\", "x", "\"">>}

\* The bodies of the responses: empty, serialized values, a text with spaces
\* and no space after the colon, and the invalid ones.
Bodies ==
  {<<>>, <<" ", "{", "\"", "x", "\"", ":", "1", "}", " ">>}
  \cup {json_dumps(v) : v \in JsonValues} \cup InvalidBodies

ResponseHeaders == {EmptyDict, OneHeader(ContentType, ApplicationJson)}

InitResponse ==
  \E body \in Bodies, code \in {200, 204}, h \in ResponseHeaders :
    /\ clients = <<>>
    /\ heap = <<>>
    /\ calls = <<>>
    /\ last = [op |-> "Response", accesses |-> 0,
               response |-> Response([code |-> code, body |-> body, headers |-> h])]

NextResponse == ToDict

SpecResponse == InitResponse /\ [][NextResponse]_vars

-----------------------------------------------------------------------------
(* SpecShared: the clients of one root, derived by segment accesses and    *)
(* version calls, and a caller that awaits each verb call before the next. *)

NextShared ==
  \/ \E i \in 1..Len(clients) : Underscore(i, <<"x">>)
  \/ \E i \in 1..Len(clients) : GetAttrSegment(i, <<"y">>)
  \/ \E i \in 1..Len(clients) : GetVersion(i, 3)
  \/ \E i \in 1..Len(clients), kwargs \in SomeKwargs :
       calls = <<>> /\ HttpRequest(i, "post", kwargs)
  \/ \E k \in 1..Len(calls), code \in {200, 404} : TransportRespond(k, code, EmptyDict)
  \/ \E k \in 1..Len(calls) : TransportFail(k, "timeout")
  \/ \E k \in 1..Len(calls) : BodyRead(k, <<>>)
  \/ \E k \in 1..Len(calls) : BodyDecodeFail(k)

SpecShared == Init /\ [][NextShared]_vars

-----------------------------------------------------------------------------
(* SpecOverlap: verb calls that overlap on the clients of one root whose   *)
(* mapping they share, with requestHeaders that write different values     *)
(* under one key, and derivations and version calls made while requests    *)
(* are in flight.                                                          *)

InitOverlap ==
  Root(Host, Some(OneHeader(ContentType, ApplicationJson)), None, None, FALSE, Some(5))

\* The keyword arguments of the verb calls of SpecOverlap.
OverlapKwargs ==
  {[NoKwargs EXCEPT !.request_headers = Some(OneHeader(XA, <<"1">>))],
   [NoKwargs EXCEPT !.request_headers =
                      Some(DictUpdate(OneHeader(XA, <<"2">>),
                                      OneHeader(ContentType, TextPlain))),
                    !.request_body = Some([t |-> "str", s |-> <<"r">>])]}

NextOverlap ==
  \/ \E i \in 1..Len(clients) : Underscore(i, <<"x">>)
  \/ \E i \in 1..Len(clients) : GetVersion(i, 3)
  \/ \E i \in 1..Len(clients), kwargs \in OverlapKwargs : HttpRequest(i, "put", kwargs)
  \/ \E k \in 1..Len(calls) : TransportRespond(k, 404, EmptyDict)
  \/ \E k \in 1..Len(calls) : BodyRead(k, <<>>)

SpecOverlap == InitOverlap /\ [][NextOverlap]_vars

-----------------------------------------------------------------------------
(* Chaining and URL construction, under SpecUrl.                           *)

RECURSIVE SlashJoined(_)
\* "/" + S[1] + "/" + S[2] + ...
SlashJoined(S) ==
  IF S = <<>> THEN <<>> ELSE <<"/">> \o Head(S) \o SlashJoined(Tail(S))

\* The path string of a client as the specification words it, with the
\* optional trailing slash and the optional query suffix.
ExpectedPathAndQuery(self, query_params) ==
  SlashJoined(self._url_path)
  \o (IF self.append_slash THEN <<"/">> ELSE <<>>)
  \o (IF IsNone(query_params) \/ query_params[1] = <<>> THEN <<>>
      ELSE <<"?">> \o urlencode(sorted(query_params[1])))

\* No step changes the path sequence of a client that exists.
PathsNeverChange ==
  [][\A i \in 1..Len(clients) : clients'[i]._url_path = clients[i]._url_path]_vars

\* C1: chaining never mutates path state: every derivation (segment access by
\* _ or by attribute, version) leaves the path sequence of every existing
\* client as it was, and the client a._(x) has the path a.path ++ [x].
C1_ChainingNeverMutatesPaths ==
  [][/\ \A i \in 1..Len(clients) : clients'[i]._url_path = clients[i]._url_path
     /\ last'.op \in {"_", "getattr"} =>
          clients'[last'.new]._url_path
            = Append(clients[last'.client]._url_path, last'.name)]_vars

\* C2: every segment access appends exactly one segment: for every string s,
\* the empty string included, a._(s) is a new client with path a.path ++ [s].
C2_SegmentAccessAppendsOne ==
  last.op = "_" =>
    /\ last.new = Len(clients)
    /\ clients[last.new]._url_path
         = Append(clients[last.client]._url_path, last.name)

\* C3: for an unversioned client with path segments S and no query parameters,
\* the URL of a call is host, then "/" + S[i] for each i in order, then one "/"
\* if append_slash is set; for empty S it is host, plus the slash if set.
C3_UnversionedUrl ==
  (/\ last.op = "http_request"
   /\ IsNone(clients[last.client]._version)
   /\ (IsNone(last.kwargs.query_params) \/ last.kwargs.query_params[1] = <<>>))
  => /\ ~IsNone(last.sent)
     /\ last.sent[1].url
          = Host \o SlashJoined(clients[last.client]._url_path)
                 \o (IF clients[last.client].append_slash THEN <<"/">> ELSE <<>>)

\* C3 witness: an unversioned client with three segments and the slash flag
\* set has sent a request to H/r/s/x/.
C3_Witness ==
  /\ last.op = "http_request"
  /\ IsNone(clients[last.client]._version)
  /\ IsNone(last.kwargs.query_params)
  /\ clients[last.client]._url_path = << <<"r">>, <<"s">>, <<"x">> >>
  /\ clients[last.client].append_slash
  /\ last.sent = Some([method |-> "GET", timeout |-> None,
                       url |-> <<"H", "/", "r", "/", "s", "/", "x", "/">>,
                       headers |-> EmptyDict, data |-> None])

\* C4: version(n) sets the version on the new client only: the new client has
\* version n and the path of the receiver, and the receiver keeps the version
\* and the path it had, so that it builds the same URL as before the call.
C4_VersionLeavesReceiver ==
  last.op = "version" =>
    /\ clients[last.new]._version = Some(last.n)
    /\ clients[last.new]._url_path = last.before._url_path
    /\ clients[last.client]._version = last.before._version
    /\ clients[last.client]._url_path = last.before._url_path
    /\ _build_url(clients[last.client], None) = _build_url(last.before, None)

\* C5: a client whose version is an integer n >= 0 builds
\* host + "/v" + n + path, path being the segment path with the optional slash
\* and query suffix; only a client with no version builds host + path.
C5_VersionedUrl ==
  (last.op = "http_request" /\ ~IsNone(last.sent)) =>
    LET self == clients[last.client]
        path == ExpectedPathAndQuery(self, last.kwargs.query_params)
    IN  last.sent[1].url
          = IF IsNone(self._version) THEN Host \o path
            ELSE Host \o <<"/", "v">> \o str(self._version[1]) \o path

\* C11: attribute access and _ are equivalent: for every client a and every
\* attribute name that is neither a verb nor version, the access a.name makes
\* one new client, with the path a.path ++ [name] and with the host, the
\* header entries, the version, the slash flag and the timeout of a.
C11_AttributeAccessIsSegment ==
  [][last'.op \in {"getattr", "field"} =>
       /\ Len(clients') = Len(clients) + 1
       /\ LET a == clients[last'.client]
              b == clients'[Len(clients')]
          IN  /\ b._url_path = Append(a._url_path, last'.name)
              /\ b.host = a.host
              /\ b._version = a._version
              /\ b.append_slash = a.append_slash
              /\ b.timeout = a.timeout
              /\ heap'[b.request_headers] = heap[a.request_headers]]_vars

\* The names that reach __getattr__ and are not empty are segments: the access
\* a.name builds what a._(name) builds.
AttributeAccessOfOtherNames ==
  [][(last'.op = "getattr" /\ last'.name # <<>>) =>
       /\ Len(clients') = Len(clients) + 1
       /\ clients'[Len(clients')]
            = _build_client(heap, clients[last'.client], Some(last'.name)).obj
       /\ clients'[Len(clients')]._url_path
            = Append(clients[last'.client]._url_path, last'.name)]_vars

\* The items of a mapping as a set of pairs, and the orders they can be
\* listed in.
Pairs(items) == {items[i] : i \in 1..Len(items)}

Orderings(items) ==
  {o \in [1..Len(items) -> Pairs(items)] : \A i, j \in 1..Len(items) : i # j => o[i] # o[j]}

KeysAscending(items) ==
  \A i, j \in 1..Len(items) : i < j => TextLess(items[i][1], items[j][1])

\* C12: with a query-parameter mapping that is not empty the URL is the URL
\* without parameters, one "?", and the encoded key=value pairs in ascending
\* key order joined by "&", the same for every insertion order of the same
\* pairs; with an absent or an empty mapping the URL has no "?" suffix.
C12_SortedQueryParams ==
  (last.op = "http_request" /\ ~IsNone(last.sent)) =>
    LET self == clients[last.client]
        q == last.kwargs.query_params
        url == last.sent[1].url
        base == _build_url(self, None)
    IN  IF IsNone(q) \/ q[1] = <<>>
        THEN url = base /\ \A i \in 1..Len(url) : url[i] # "?"
        ELSE /\ \E o \in Orderings(q[1]) :
                  /\ KeysAscending(o)
                  /\ url = base \o <<"?">>
                           \o Join(<<"&">>, [i \in 1..Len(o) |->
                                 quote_plus(o[i][1]) \o <<"=">> \o quote_plus(o[i][2])])
             /\ Cardinality({i \in 1..Len(url) : url[i] = "?"}) = 1
             /\ \A q2 \in CallParams \ {None} :
                  Pairs(q2[1]) = Pairs(q[1]) => _build_url(self, q2) = url

\* C12 witness: the mapping inserted as b=1, then a=" ", on a client of
\* version 3 and path r with the slash flag, is sent as H/v3/r/?a=+&b=1.
C12_Witness ==
  /\ last.op = "http_request"
  /\ last.kwargs.query_params = Some(<< << <<"b">>, <<"1">> >>, << <<"a">>, <<" ">> >> >>)
  /\ last.sent # None
  /\ last.sent[1].url
       = <<"H", "/", "v", "3", "/", "r", "/", "?", "a", "=", "+", "&", "b", "=", "1">>

-----------------------------------------------------------------------------
(* The shared header mapping, under Spec.                                  *)

\* C6: the clients derived from one root alias one header mapping, whether
\* the root was created with headers or without: the requestHeaders a verb
\* call merges on any of them are in the mapping of the root and of every
\* other client.
C6_MergeVisibleToAllClients ==
  (last.op = "http_request" /\ ~IsNone(last.kwargs.request_headers)) =>
    \A j \in 1..Len(clients) :
      \A k \in DOMAIN last.kwargs.request_headers[1] :
        /\ k \in DOMAIN heap[clients[j].request_headers]
        /\ heap[clients[j].request_headers][k] = last.kwargs.request_headers[1][k]

\* The mapping d with the entries of the optional mapping r written over it.
MergeOf(d, r) ==
  IF IsNone(r) THEN d
  ELSE [k \in (DOMAIN d) \cup (DOMAIN r[1]) |-> IF k \in DOMAIN r[1] THEN r[1][k] ELSE d[k]]

\* C14: the requestHeaders R of a verb call are merged into the mapping of the
\* receiver before the body encoding is chosen and before the outgoing
\* headers are built, and the merge persists.  Step by step: a verb call
\* leaves in the mapping of its receiver what was there with R written over
\* it, also when it raises; it sends every entry of that merged mapping, so
\* the entries of R and the entries earlier calls left there; it encodes its
\* body by the Content-Type of the merged mapping; and no other step (the
\* answer or the failure of a request, a derivation) changes a mapping.
C14_MergeBeforeEncodingAndPersists ==
  [][IF last'.op = "http_request"
     THEN LET idx == clients[last'.client].request_headers
              merged == MergeOf(heap[idx], last'.kwargs.request_headers)
              body == last'.kwargs.request_body
          IN  /\ Len(heap') = Len(heap)
              /\ heap'[idx] = merged
              /\ \A d \in 1..Len(heap) : d # idx => heap'[d] = heap[d]
              /\ ~IsNone(last'.sent) =>
                   /\ \A k \in DOMAIN merged :
                        /\ encode(k) \in DOMAIN last'.sent[1].headers
                        /\ last'.sent[1].headers[encode(k)] = encode(merged[k])
                   /\ ~IsNone(body) =>
                        last'.sent[1].data
                          = IF ContentType \in DOMAIN merged
                               /\ merged[ContentType] # ApplicationJson
                            THEN Some(encode(body[1].s))
                            ELSE Some(encode(json_dumps(body[1])))
     ELSE \A d \in 1..Len(heap) : heap'[d] = heap[d]]_vars

\* C14 witness: the mapping of the root, which a derived client shares, holds
\* X-A: 1 from an earlier call that has ended; a call on the derived client
\* that passes no requestHeaders sends X-A: 1.
C14_Witness ==
  /\ last.op = "http_request"
  /\ last.client = 2
  /\ clients[2].request_headers = clients[1].request_headers
  /\ IsNone(last.kwargs.request_headers)
  /\ Len(calls) = 1
  /\ last.sent # None
  /\ encode(XA) \in DOMAIN last.sent[1].headers
  /\ last.sent[1].headers[encode(XA)] = <<49>>

\* C17: a verb call changes no client: at the step of the call, at the step
\* that receives its status and at the step that ends it (Response,
\* HTTPError, transport error, decode error), every client keeps its host,
\* version, path, slash flag, timeout and the mapping it refers to; and the
\* mappings keep their entries unless the step is a call with requestHeaders.
C17_VerbCallChangesNoClient ==
  [][last'.op \in {"http_request", "tx_req", "finish"} =>
       /\ Len(clients') = Len(clients)
       /\ \A j \in 1..Len(clients) :
            /\ clients'[j].host = clients[j].host
            /\ clients'[j]._version = clients[j]._version
            /\ clients'[j]._url_path = clients[j]._url_path
            /\ clients'[j].append_slash = clients[j].append_slash
            /\ clients'[j].timeout = clients[j].timeout
            /\ clients'[j].request_headers = clients[j].request_headers
       /\ (last'.op = "http_request" => IsNone(last'.kwargs.request_headers)) =>
            heap' = heap]_vars

\* C17 witness: a call with a body and a timeout of its own and no
\* requestHeaders, on a derived client of version 3 whose mapping holds
\* entries, has ended with an HTTPError.
C17_Witness ==
  /\ last.op = "finish"
  /\ last.client = 2
  /\ last.req.timeout = Some(9)
  /\ last.req.data # None
  /\ last.outcome.result = "raise"
  /\ last.outcome.value.type = "HTTPError"
  /\ clients[2]._version = Some(3)
  /\ clients[2].timeout = Some(5)
  /\ heap[clients[2].request_headers] = OneHeader(ContentType, ApplicationJson)

-----------------------------------------------------------------------------
(* The request a verb call sends and what it yields, under SpecCall.       *)

\* The header mapping of the receiver once the requestHeaders of the last
\* call were merged into the mapping it had before the call.
MergedHeaders ==
  IF IsNone(last.kwargs.request_headers) THEN last.before
  ELSE [k \in (DOMAIN last.before) \cup (DOMAIN last.kwargs.request_headers[1]) |->
          IF k \in DOMAIN last.kwargs.request_headers[1]
          THEN last.kwargs.request_headers[1][k] ELSE last.before[k]]

BodyIsText == last.kwargs.request_body[1].t = "str"

\* C7: the body encoding follows the Content-Type of the mapping after the
\* merge: no requestBody, no body; a requestBody with Content-Type
\* application/json or with none is sent as its JSON serialization; a
\* requestBody text with any other Content-Type is sent verbatim.
C7_BodyEncoding ==
  last.op = "http_request" =>
    LET body == last.kwargs.request_body
        json == ContentType \notin DOMAIN MergedHeaders
                \/ MergedHeaders[ContentType] = ApplicationJson
    IN  /\ IsNone(body) => ~IsNone(last.sent) /\ last.sent[1].data = None
        /\ ~IsNone(body) /\ json =>
             /\ ~IsNone(last.sent)
             /\ last.sent[1].data = Some(encode(json_dumps(body[1])))
        /\ ~IsNone(body) /\ ~json /\ BodyIsText =>
             /\ ~IsNone(last.sent)
             /\ last.sent[1].data = Some(encode(body[1].s))

\* C7 witness: a root created with Content-Type application/json is called
\* with requestHeaders Content-Type text/plain and a text body, and the bytes
\* of the text are sent as they are.
C7_Witness ==
  /\ last.op = "http_request"
  /\ last.before = OneHeader(ContentType, ApplicationJson)
  /\ last.kwargs.request_headers = Some(OneHeader(ContentType, TextPlain))
  /\ last.kwargs.request_body = Some([t |-> "str", s |-> <<"r", "U+00E9">>])
  /\ last.sent # None
  /\ last.sent[1].data = Some(<<114, 195, 169>>)

\* C8: the outgoing headers are the mapping after the merge, and
\* Content-Type: application/json is added to them if and only if the call
\* has a requestBody and the mapping has no Content-Type.
C8_AutoContentType ==
  (last.op = "http_request" /\ ~IsNone(last.sent)) =>
    LET out == last.sent[1].headers
        auto == ~IsNone(last.kwargs.request_body)
                /\ ContentType \notin DOMAIN MergedHeaders
    IN  /\ DOMAIN out = {encode(k) : k \in DOMAIN MergedHeaders}
                        \cup (IF auto THEN {encode(ContentType)} ELSE {})
        /\ \A k \in DOMAIN MergedHeaders : out[encode(k)] = encode(MergedHeaders[k])
        /\ auto => out[encode(ContentType)] = encode(ApplicationJson)

\* C8 witness: a call with an empty text body and no Content-Type anywhere
\* sends the two bytes of the JSON empty string and the added header.
C8_Witness ==
  /\ last.op = "http_request"
  /\ last.before = EmptyDict
  /\ last.kwargs.request_headers = Some(OneHeader(XA, <<"1">>))
  /\ last.kwargs.request_body = Some([t |-> "str", s |-> <<>>])
  /\ last.sent # None
  /\ last.sent[1].data = Some(<<34, 34>>)
  /\ DOMAIN last.sent[1].headers = {encode(XA), encode(ContentType)}
  /\ last.sent[1].headers[encode(ContentType)] = encode(ApplicationJson)

\* C9: a completed exchange is classified by its status alone: the call
\* returns a Response with the status code, body and headers of the exchange
\* if and only if the code is in [200,300), and otherwise raises an HttpError
\* with that code, body and headers, an empty body included.
C9_StatusClassification ==
  (last.op = "finish" /\ ~IsNone(last.exchange)) =>
    LET ex == last.exchange[1]
    IN  IF 200 <= ex.code /\ ex.code < 300
        THEN last.outcome
               = [result |-> "return",
                  value |-> [_status_code |-> ex.code, _body |-> ex.body,
                             _headers |-> ex.headers]]
        ELSE /\ last.outcome.result = "raise"
             /\ last.outcome.value.type = "HTTPError"
             /\ last.outcome.value.code = ex.code
             /\ last.outcome.value.body = ex.body
             /\ last.outcome.value.headers = ex.headers

\* C9 witness: an exchange of status 300 with an empty body has raised an
\* HttpError.
C9_Witness ==
  /\ last.op = "finish"
  /\ last.exchange = Some([body |-> <<>>, code |-> 300, headers |-> EmptyDict])
  /\ last.outcome.result = "raise"
  /\ last.outcome.value.type = "HTTPError"

\* C10: the transport is handed the timeoutOverride of the call when one is
\* given, and the configured timeout of the client when none is given.
C10_TimeoutHandedToTransport ==
  (last.op = "http_request" /\ ~IsNone(last.sent)) =>
    last.sent[1].timeout
      = IF IsNone(last.kwargs.timeout) THEN clients[last.client].timeout
        ELSE last.kwargs.timeout

-----------------------------------------------------------------------------
(* Response.to_dict, under SpecResponse.                                   *)

\* C13: to_dict is a function of the body alone, computed at each access: it
\* returns None for the empty body, the value for a body that is the JSON text
\* of a value, and raises a parse error for a body that is not empty and not
\* a JSON text; an access leaves the status code, the body and the headers
\* of the Response as they were, and a second access yields what the first did.
C13_ToDictIsPure ==
  [][last'.op = "to_dict" =>
       /\ last'.response = last.response
       /\ last.op = "to_dict" => last'.outcome = last.outcome
       /\ LET body == last.response._body
          IN  /\ body = <<>> => last'.outcome = [result |-> "return", value |-> [t |-> "null"]]
              /\ \A v \in JsonValues :
                   body = json_dumps(v) => last'.outcome = [result |-> "return", value |-> v]
              /\ body \in InvalidBodies =>
                   last'.outcome = [result |-> "raise", value |-> [type |-> "JSONDecodeError"]]]_vars

\* C13 witness: the body {"x":1} between spaces was read three times and
\* gave the value {"x": 1} at the third.
C13_Witness ==
  /\ last.op = "to_dict"
  /\ last.accesses = MaxAccesses
  /\ last.response._body = <<" ", "{", "\"", "x", "\"", ":", "1", "}", " ">>
  /\ last.response._status_code = 200
  /\ last.outcome = [result |-> "return",
                     value |-> [t |-> "dict",
                                items |-> <<[k |-> <<"x">>, v |-> [t |-> "int", n |-> 1]]>>]]

-----------------------------------------------------------------------------
(* The execution of one request, under SpecCall.                           *)

\* C15: a verb call invokes the transport at most once and never again: the
\* step of the call makes at most one request; a step that ends a call or
\* receives a status makes no request, so neither a failure of the transport
\* nor a status outside [200,300) is followed by a second invocation; and a
\* failure of the transport ends the call by raising the error of the
\* transport itself, not an HTTPError and not a Response.
C15_TransportInvokedOnce ==
  [][/\ last'.op = "http_request" =>
          /\ Len(calls') = Len(calls) + (IF IsNone(last'.sent) THEN 0 ELSE 1)
          /\ \A k \in 1..Len(calls) : calls'[k] = calls[k]
          /\ ~IsNone(last'.sent) => calls'[Len(calls')].invocations = 1
     /\ last'.op = "tx_req" =>
          /\ Len(calls') = Len(calls)
          /\ \A k \in 1..Len(calls) : calls'[k].invocations = calls[k].invocations
     /\ last'.op = "finish" =>
          /\ last'.invocations = 1
          /\ Len(calls') = Len(calls) - 1
          /\ \A k \in 1..Len(calls') : \E j \in 1..Len(calls) : calls'[k] = calls[j]
          /\ ~IsNone(last'.failure) =>
               /\ IsNone(last'.exchange)
               /\ last'.outcome
                    = [result |-> "raise",
                       value |-> [type |-> "TransportError", error |-> last'.failure[1]]]]_vars

\* C15 witness: the transport failed by timeout on a POST with a body, the
\* call raised the timeout after one invocation, and no call is in flight.
C15_Witness ==
  /\ last.op = "finish"
  /\ last.failure = Some("timeout")
  /\ last.req.method = "POST"
  /\ last.req.data # None
  /\ last.invocations = 1
  /\ last.outcome.result = "raise"
  /\ calls = <<>>

\* C16: one request runs in order: the status is received first, then the
\* body text is read, then the status is classified.  A step that receives a
\* status takes a call from the transport invocation to the body read; a
\* Response or an HTTPError comes only from a call resumed at the body read,
\* with the status received before and the body read; a call that ends
\* before the body read ends by a transport failure; and a body read that
\* fails raises its own error, not an HTTPError, whatever the status.
C16_StatusThenBodyThenClassification ==
  [][/\ last'.op = "tx_req" =>
          \E k \in 1..Len(calls) :
            /\ calls[k].pc = "tx_req" /\ IsNone(calls[k].code)
            /\ calls'[k].pc = "text_content" /\ calls'[k].code = Some(last'.code)
     /\ last'.op = "finish" =>
          /\ \E k \in 1..Len(calls) :
               calls[k].pc = last'.stage /\ calls[k].code = last'.status
          /\ (last'.outcome.result = "return" \/ last'.outcome.value.type = "HTTPError") =>
               /\ last'.stage = "text_content"
               /\ ~IsNone(last'.exchange)
               /\ last'.status = Some(last'.exchange[1].code)
               /\ last'.outcome.result = "return" <=> ~IsFailure(last'.status[1])
          /\ last'.stage = "tx_req" => ~IsNone(last'.failure) /\ IsNone(last'.status)
          /\ (last'.stage = "text_content" /\ IsNone(last'.exchange)) =>
               /\ ~IsNone(last'.status)
               /\ last'.outcome = [result |-> "raise", value |-> [type |-> "UnicodeDecodeError"]]]_vars

\* C16 witness: the status 404 was received, the body read failed, and the
\* call raised the decode error.
C16_Witness ==
  /\ last.op = "finish"
  /\ last.stage = "text_content"
  /\ last.status = Some(404)
  /\ IsNone(last.exchange)
  /\ last.outcome.value.type = "UnicodeDecodeError"

\* C19: the Content-Type: application/json a call adds by itself is local to
\* the call.  A call with a body on a mapping that has no Content-Type after
\* the merge sends the JSON serialization with the header added and leaves
\* the mapping without Content-Type; and a mapping gains a Content-Type only
\* at a call whose requestHeaders supply one.  So however many such calls were
\* made, the next call with a body is serialized and given the header again.
C19_AutoContentTypeIsCallLocal ==
  [][/\ last'.op = "http_request" =>
          LET idx == clients[last'.client].request_headers
              merged == MergeOf(heap[idx], last'.kwargs.request_headers)
              body == last'.kwargs.request_body
          IN  (~IsNone(body) /\ ContentType \notin DOMAIN merged) =>
                /\ ContentType \notin DOMAIN heap'[idx]
                /\ heap'[idx] = merged
                /\ ~IsNone(last'.sent)
                /\ last'.sent[1].data = Some(encode(json_dumps(body[1])))
                /\ encode(ContentType) \in DOMAIN last'.sent[1].headers
                /\ last'.sent[1].headers[encode(ContentType)] = encode(ApplicationJson)
     /\ \A d \in 1..Len(heap) :
          (ContentType \in DOMAIN heap'[d] /\ ContentType \notin DOMAIN heap[d]) =>
            /\ last'.op = "http_request"
            /\ ~IsNone(last'.kwargs.request_headers)
            /\ ContentType \in DOMAIN last'.kwargs.request_headers[1]]_vars

\* C19 witness: after an earlier call left X-A: 1 in the mapping, a call with
\* the body {"a": 1} and no requestHeaders sends the serialization and the
\* added header, and the mapping holds X-A: 1 only.
C19_Witness ==
  /\ last.op = "http_request"
  /\ last.before = OneHeader(XA, <<"1">>)
  /\ IsNone(last.kwargs.request_headers)
  /\ last.kwargs.request_body
       = Some([t |-> "dict", items |-> <<[k |-> <<"a">>, v |-> [t |-> "int", n |-> 1]]>>])
  /\ last.sent # None
  /\ last.sent[1].data = Some(<<123, 34, 97, 34, 58, 32, 49, 125>>)
  /\ last.sent[1].headers
       = (encode(XA) :> <<49>>) @@ (encode(ContentType) :> encode(ApplicationJson))
  /\ heap[clients[last.client].request_headers] = OneHeader(XA, <<"1">>)

-----------------------------------------------------------------------------
(* Overlapping calls, under SpecOverlap.                                   *)

\* C18: the request of a call is fixed when the verb is invoked.  The step of
\* the call merges the headers, builds the URL of the receiver as it is at
\* that step, encodes the body and the headers from the merged mapping, so
\* that the headers carry the value of the call for every key it supplied,
\* and invokes the transport with them; and no later step, of this call or of
\* another call, derivation or version call, changes the request of a call
\* in flight: a call ends with the request it was invoked with.
C18_RequestFixedAtInvocation ==
  [][/\ (last'.op = "http_request" /\ ~IsNone(last'.sent)) =>
          LET self == clients[last'.client]
              R == last'.kwargs.request_headers
              merged == MergeOf(heap[self.request_headers], R)
              req == last'.sent[1]
          IN  /\ Len(calls') = Len(calls) + 1
              /\ calls'[Len(calls')].req = req
              /\ calls'[Len(calls')].pc = "tx_req"
              /\ \A k \in 1..Len(calls) : calls'[k] = calls[k]
              /\ req.url = _build_url(self, last'.kwargs.query_params)
              /\ req.data = RequestData(merged, last'.kwargs)
              /\ req.headers = OutgoingHeaders(merged, req.data)
              /\ ~IsNone(R) => \A k \in DOMAIN R[1] :
                                 /\ encode(k) \in DOMAIN req.headers
                                 /\ req.headers[encode(k)] = encode(R[1][k])
     /\ last'.op \in {"_", "getattr", "field", "version"} => calls' = calls
     /\ last'.op = "tx_req" =>
          /\ Len(calls') = Len(calls)
          /\ \A k \in 1..Len(calls) : calls'[k].req = calls[k].req
     /\ last'.op = "finish" =>
          \E k0 \in 1..Len(calls) :
            /\ last'.req = calls[k0].req
            /\ Len(calls') = Len(calls) - 1
            /\ \A j \in 1..Len(calls') :
                 calls'[j] = IF j < k0 THEN calls[j] ELSE calls[j + 1]]_vars

\* C18 witness: two calls are in flight on the root.  The first was invoked
\* with X-A: 1 on the unversioned root; since then the root was given
\* version 3 and the second call wrote X-A: 2 and Content-Type text/plain
\* into the shared mapping.  The request of the first still has the URL H, X-A: 1
\* and Content-Type application/json, and the second has H/v3 and X-A: 2.
C18_Witness ==
  /\ Len(calls) = 2
  /\ calls[1].client = 1 /\ calls[2].client = 1
  /\ calls[1].req.url = <<"H">>
  /\ calls[1].req.headers = (encode(XA) :> <<49>>) @@ (encode(ContentType) :> encode(ApplicationJson))
  /\ calls[2].req.url = <<"H", "/", "v", "3">>
  /\ encode(XA) \in DOMAIN calls[2].req.headers
  /\ calls[2].req.headers[encode(XA)] = <<50>>
  /\ heap[clients[1].request_headers][XA] = <<"2">>
  /\ clients[1]._version = Some(3)

====
